---- MODULE Spec2Model ----
(***************************************************************************)
(* sagemaker.serializers: the BaseSerializer contract and JSONSerializer.  *)
(*                                                                         *)
(* Python values are records with one fixed set of fields, so that every   *)
(* two values can be compared:                                             *)
(*   t      the type: "NoneType", "bool", "int", "str", "list", "dict",    *)
(*          "ndarray", "object" (a custom instance) or "file"              *)
(*   n      the number of an int, 0/1 of a bool                            *)
(*   s      the characters of a str                                        *)
(*   k, v   the keys (insertion order) and values of a dict, or the items  *)
(*          of a list in v                                                 *)
(*   shape, buf   the shape of an ndarray and its row-major (C order)      *)
(*          element buffer                                                 *)
(*   rd     0 when the object has no attribute "read", else the id of the  *)
(*          stream its read() reads                                        *)
(* A text is a sequence of one-character strings.                          *)
(***************************************************************************)
EXTENDS Integers, Sequences, FiniteSets, TLC

\* ---------------------------------------------------------------- bounds

\* Largest number of dimensions of an ndarray of the payload domain.
MaxDim == 2
\* Largest extent of one dimension of an ndarray of the payload domain.
MaxExtent == 2
\* Deepest nesting of containers around a leaf value in a payload.
MaxDepth == 2

\* ---------------------------------------------------------------- values

Blank == [t |-> "NoneType", n |-> 0, s |-> <<>>, k |-> <<>>, v |-> <<>>,
          shape |-> <<>>, buf |-> <<>>, rd |-> 0]

PyNone == Blank
PyBool(b) == [Blank EXCEPT !.t = "bool", !.n = IF b THEN 1 ELSE 0]
PyInt(i) == [Blank EXCEPT !.t = "int", !.n = i]
PyStr(chars) == [Blank EXCEPT !.t = "str", !.s = chars]
PyList(items) == [Blank EXCEPT !.t = "list", !.v = items]
PyDict(keys, values) == [Blank EXCEPT !.t = "dict", !.k = keys, !.v = values]
NdArray(shape, buf) == [Blank EXCEPT !.t = "ndarray", !.shape = shape, !.buf = buf]
PyObject == [Blank EXCEPT !.t = "object"]
PyFile(id) == [Blank EXCEPT !.t = "file", !.rd = id]
\* A subclass instance that adds a read() method reading stream id.
WithRead(x, id) == [x EXCEPT !.rd = id]

\* isinstance(x, dict), isinstance(x, np.ndarray), hasattr(x, "read")
IsDict(x) == x.t = "dict"
IsNdArray(x) == x.t = "ndarray"
HasRead(x) == x.rd # 0

\* ---------------------------------------------------------------- ndarray.tolist

RECURSIVE Product(_)
Product(shape) == IF shape = <<>> THEN 1 ELSE Head(shape) * Product(Tail(shape))

RECURSIVE tolist_colmajor(_, _)
tolist_colmajor(shape, buf) ==
    IF shape = <<>> THEN PyInt(buf[1])
    ELSE PyList([i \in 1..Head(shape) |->
                   tolist_colmajor(Tail(shape),
                       [j \in 1..Product(Tail(shape)) |-> buf[(j - 1) * Head(shape) + i]])])

\* a.tolist(): the nested lists of a's elements, one level per dimension, the
\* last index varying fastest; a 0-d array gives its one element.
RECURSIVE tolist(_, _)
tolist(shape, buf) ==
    IF shape = <<>> THEN PyInt(buf[1])
    ELSE LET stride == Product(Tail(shape))
         IN  PyList([i \in 1..Head(shape) |->
                       tolist(Tail(shape), SubSeq(buf, (i - 1) * stride + 1, i * stride))])

\* ---------------------------------------------------------------- json.dumps

Digits == <<"0", "1", "2", "3", "4", "5", "6", "7", "8", "9">>

RECURSIVE NatText(_)
NatText(i) == IF i < 10 THEN <<Digits[i + 1]>>
              ELSE NatText(i \div 10) \o <<Digits[(i % 10) + 1]>>

IntText(i) == IF i < 0 THEN <<"-">> \o NatText(-i) ELSE NatText(i)

\* The JSON string literal of a str: quotes and backslashes are escaped.
RECURSIVE Escaped(_)
Escaped(chars) ==
    IF chars = <<>> THEN <<>>
    ELSE (IF Head(chars) \in {"\"", "\\"} THEN <<"\\", Head(chars)>> ELSE <<Head(chars)>>)
         \o Escaped(Tail(chars))

StrText(chars) == <<"\"">> \o Escaped(chars) \o <<"\"">>

\* Whether json's encoder has an encoding for x at every depth; it has none for
\* an ndarray, a file or a custom instance (JSONEncoder.default raises TypeError).
RECURSIVE Encodable(_)
Encodable(x) ==
    CASE x.t \in {"NoneType", "bool", "int", "str"} -> TRUE
      [] x.t \in {"list", "dict"} -> \A i \in 1..Len(x.v) : Encodable(x.v[i])
      [] OTHER -> FALSE

RECURSIVE Encode(_)
RECURSIVE EncodeItems(_, _, _)
\* The items from index i on, separated by ", "; a dict's items are "key": value.
EncodeItems(x, i, first) ==
    IF i > Len(x.v) THEN <<>>
    ELSE (IF first THEN <<>> ELSE <<",", " ">>)
         \o (IF x.t = "dict" THEN StrText(x.k[i]) \o <<":", " ">> ELSE <<>>)
         \o Encode(x.v[i])
         \o EncodeItems(x, i + 1, FALSE)

Encode(x) ==
    CASE x.t = "NoneType" -> <<"n", "u", "l", "l">>
      [] x.t = "bool" -> IF x.n = 1 THEN <<"t", "r", "u", "e">>
                         ELSE <<"f", "a", "l", "s", "e">>
      [] x.t = "int" -> IntText(x.n)
      [] x.t = "str" -> StrText(x.s)
      [] x.t = "list" -> <<"[">> \o EncodeItems(x, 1, TRUE) \o <<"]">>
      [] x.t = "dict" -> <<"{">> \o EncodeItems(x, 1, TRUE) \o <<"}">>
      [] OTHER -> <<"?">>

\* The outcome of a call: exc is "" on a return, text is what was returned.
Return(text) == [exc |-> "", text |-> text]
Raise(exc) == [exc |-> exc, text |-> <<>>]

dumps_lenient(x) == Return(Encode(x))

\* json.dumps(x): the JSON text of x, or TypeError and no text at all.
dumps(x) == IF Encodable(x) THEN Return(Encode(x)) ELSE Raise("TypeError")

\* ---------------------------------------------------------------- json.loads
\* The standard decoder the round-trip properties decode with. A parse gives
\* [ok, val, rest]: whether a value was read, the value, and the text after it.

NoParse == [ok |-> FALSE, val |-> PyNone, rest |-> <<>>]
Parsed(val, rest) == [ok |-> TRUE, val |-> val, rest |-> rest]

RECURSIVE SkipWs(_)
SkipWs(text) == IF text # <<>> /\ Head(text) = " " THEN SkipWs(Tail(text)) ELSE text

IsDigit(c) == \E i \in 1..10 : Digits[i] = c
DigitVal(c) == (CHOOSE i \in 1..10 : Digits[i] = c) - 1

StartsWith(text, word) ==
    Len(text) >= Len(word) /\ SubSeq(text, 1, Len(word)) = word
Drop(text, i) == SubSeq(text, i + 1, Len(text))

RECURSIVE ParseDigits(_, _)
ParseDigits(text, acc) ==
    IF text # <<>> /\ IsDigit(Head(text))
    THEN ParseDigits(Tail(text), acc * 10 + DigitVal(Head(text)))
    ELSE Parsed(PyInt(acc), text)

\* -?(0|[1-9][0-9]*): a leading 0 is a number of its own.
ParseNumber(text) ==
    LET neg == Head(text) = "-"
        body == IF neg THEN Tail(text) ELSE text
    IN  IF body = <<>> \/ ~IsDigit(Head(body)) THEN NoParse
        ELSE LET p == IF Head(body) = "0" THEN Parsed(PyInt(0), Tail(body))
                      ELSE ParseDigits(body, 0)
             IN  IF neg THEN Parsed(PyInt(-p.val.n), p.rest) ELSE p

\* The characters of a string literal after its opening quote; of the escapes,
\* \" \\ and \/ are decoded, the others are outside the modelled alphabet.
RECURSIVE ParseString(_, _)
ParseString(text, acc) ==
    IF text = <<>> THEN NoParse
    ELSE IF Head(text) = "\"" THEN Parsed(PyStr(acc), Tail(text))
    ELSE IF Head(text) = "\\"
         THEN IF Len(text) >= 2 /\ text[2] \in {"\"", "\\", "/"}
              THEN ParseString(Drop(text, 2), Append(acc, text[2]))
              ELSE NoParse
    ELSE ParseString(Tail(text), Append(acc, Head(text)))

KeyIndex(d, key) == {i \in 1..Len(d.k) : d.k[i] = key}

\* d[key] = val: a new key goes last, a repeated key keeps its place.
DictPut(d, key, val) ==
    IF KeyIndex(d, key) = {} THEN PyDict(Append(d.k, key), Append(d.v, val))
    ELSE PyDict(d.k, [d.v EXCEPT ![CHOOSE i \in KeyIndex(d, key) : TRUE] = val])

RECURSIVE ParseValue(_)
RECURSIVE ParseElements(_, _)
RECURSIVE ParseMembers(_, _)

\* After "[" or ",": a value, then "," and more, or "]".
ParseElements(text, acc) ==
    LET p == ParseValue(text)
        after == SkipWs(p.rest)
    IN  IF ~p.ok \/ after = <<>> THEN NoParse
        ELSE IF Head(after) = "]" THEN Parsed(PyList(Append(acc, p.val)), Tail(after))
        ELSE IF Head(after) = "," THEN ParseElements(Tail(after), Append(acc, p.val))
        ELSE NoParse

\* After "{" or ",": "key" : value, then "," and more, or "}".
ParseMembers(text, acc) ==
    LET t1 == SkipWs(text)
        key == IF t1 # <<>> /\ Head(t1) = "\"" THEN ParseString(Tail(t1), <<>>) ELSE NoParse
        t2 == SkipWs(key.rest)
        p == IF key.ok /\ t2 # <<>> /\ Head(t2) = ":" THEN ParseValue(Tail(t2)) ELSE NoParse
        after == SkipWs(p.rest)
    IN  IF ~p.ok \/ after = <<>> THEN NoParse
        ELSE IF Head(after) = "}"
             THEN Parsed(DictPut(acc, key.val.s, p.val), Tail(after))
        ELSE IF Head(after) = ","
             THEN ParseMembers(Tail(after), DictPut(acc, key.val.s, p.val))
        ELSE NoParse

ParseValue(text) ==
    LET t1 == SkipWs(text)
    IN  IF t1 = <<>> THEN NoParse
        ELSE IF StartsWith(t1, <<"n", "u", "l", "l">>) THEN Parsed(PyNone, Drop(t1, 4))
        ELSE IF StartsWith(t1, <<"t", "r", "u", "e">>) THEN Parsed(PyBool(TRUE), Drop(t1, 4))
        ELSE IF StartsWith(t1, <<"f", "a", "l", "s", "e">>)
             THEN Parsed(PyBool(FALSE), Drop(t1, 5))
        ELSE IF Head(t1) = "\"" THEN ParseString(Tail(t1), <<>>)
        ELSE IF Head(t1) = "-" \/ IsDigit(Head(t1)) THEN ParseNumber(t1)
        ELSE IF Head(t1) = "["
             THEN LET t2 == SkipWs(Tail(t1))
                  IN  IF t2 # <<>> /\ Head(t2) = "]" THEN Parsed(PyList(<<>>), Tail(t2))
                      ELSE ParseElements(t2, <<>>)
        ELSE IF Head(t1) = "{"
             THEN LET t2 == SkipWs(Tail(t1))
                  IN  IF t2 # <<>> /\ Head(t2) = "}"
                      THEN Parsed(PyDict(<<>>, <<>>), Tail(t2))
                      ELSE ParseMembers(t2, PyDict(<<>>, <<>>))
        ELSE NoParse

\* json.loads(text): the one value of the text; text after it is an error.
loads(text) ==
    LET p == ParseValue(text)
    IN  IF p.ok /\ SkipWs(p.rest) = <<>> THEN p ELSE NoParse

\* Equality of decoded values: same type and content, a dict's key order aside.
RECURSIVE Same(_, _)
Same(a, b) ==
    /\ a.t = b.t
    /\ CASE a.t \in {"bool", "int"} -> a.n = b.n
         [] a.t = "str" -> a.s = b.s
         [] a.t = "list" -> /\ Len(a.v) = Len(b.v)
                            /\ \A i \in 1..Len(a.v) : Same(a.v[i], b.v[i])
         [] a.t = "dict" -> /\ Len(a.k) = Len(b.k)
                            /\ \A i \in 1..Len(a.k) :
                                 \E j \in 1..Len(b.k) :
                                    a.k[i] = b.k[j] /\ Same(a.v[i], b.v[j])
         [] OTHER -> a.t = "NoneType"

\* ---------------------------------------------------------------- BaseSerializer

\* The members BaseSerializer declares abstract.
Members == {"serialize", "CONTENT_TYPE"}

\* A class is its name, the members its body defines, and its CONTENT_TYPE
\* attribute ("" when the body sets none).
BaseSerializer == [name |-> "BaseSerializer", defines |-> {}, CONTENT_TYPE |-> ""]

JSONSerializer_wrong_type ==
    [name |-> "JSONSerializer", defines |-> Members, CONTENT_TYPE |-> "text/json"]

JSONSerializer ==
    [name |-> "JSONSerializer", defines |-> Members, CONTENT_TYPE |-> "application/json"]

\* A subclass of BaseSerializer whose body defines only the members of defs.
Variant(defs) ==
    [name |-> "Variant", defines |-> defs,
     CONTENT_TYPE |-> IF "CONTENT_TYPE" \in defs THEN "text/csv" ELSE ""]

\* The classes a caller may try to instantiate: the two of the module and the
\* variants that leave out a member.
Classes == {BaseSerializer, JSONSerializer} \cup {Variant(d) : d \in (SUBSET Members) \ {Members}}

abstractmethods_serialize_only(class) == {"serialize"} \ class.defines

\* class.__abstractmethods__: the abstract members the class does not define.
abstractmethods(class) == Members \ class.defines

\* ---------------------------------------------------------------- JSONSerializer.serialize

\* stream.read(): the content from the read position to the end; the position
\* is then the end.
Remaining(stream) == Drop(stream.buf, stream.pos)
Consumed(stream) == [stream EXCEPT !.pos = Len(stream.buf)]

\* What a call leaves: its result (a return or a raise), the streams, the
\* caller's payload object, and how many times a read() was invoked.
Outcome(result, streams, data, reads) ==
    [result |-> result, streams |-> streams, data |-> data, reads |-> reads]

read_noadvance(data, streams) ==
    Outcome(Return(Remaining(streams[data.rd])), streams, data, 1)

\* data.read()
read(data, streams) ==
    Outcome(Return(Remaining(streams[data.rd])),
            [streams EXCEPT ![data.rd] = Consumed(streams[data.rd])], data, 1)

\* value.tolist() if isinstance(value, np.ndarray) else value
Converted(value) == IF IsNdArray(value) THEN tolist(value.shape, value.buf) ELSE value

RECURSIVE ConvertedDeep(_)
ConvertedDeep(value) ==
    IF IsNdArray(value) THEN tolist(value.shape, value.buf)
    ELSE IF value.t \in {"list", "dict"}
         THEN [value EXCEPT !.v = [i \in 1..Len(value.v) |-> ConvertedDeep(value.v[i])]]
    ELSE value

comprehension_unconverted(data) == PyDict(data.k, data.v)

comprehension_deep(data) ==
    PyDict(data.k, [i \in 1..Len(data.v) |-> ConvertedDeep(data.v[i])])

\* {key: value.tolist() if isinstance(value, np.ndarray) else value
\*  for key, value in data.items()}: a new plain dict.
comprehension(data) == PyDict(data.k, [i \in 1..Len(data.v) |-> Converted(data.v[i])])

serialize_read_first(data, streams) ==
    IF HasRead(data) THEN read(data, streams)
    ELSE IF IsDict(data) THEN Outcome(dumps(comprehension(data)), streams, data, 0)
    ELSE IF IsNdArray(data)
         THEN Outcome(dumps(tolist(data.shape, data.buf)), streams, data, 0)
    ELSE Outcome(dumps(data), streams, data, 0)

serialize_in_place(data, streams) ==
    IF IsDict(data)
    THEN Outcome(dumps(comprehension(data)), streams,
                 [data EXCEPT !.v = comprehension(data).v], 0)
    ELSE IF HasRead(data) THEN read(data, streams)
    ELSE IF IsNdArray(data)
         THEN Outcome(dumps(tolist(data.shape, data.buf)), streams, data, 0)
    ELSE Outcome(dumps(data), streams, data, 0)

\* JSONSerializer.serialize(self, data)
serialize(data, streams) ==
    IF IsDict(data) THEN Outcome(dumps(comprehension(data)), streams, data, 0)
    ELSE IF HasRead(data) THEN read(data, streams)
    ELSE IF IsNdArray(data)
         THEN Outcome(dumps(tolist(data.shape, data.buf)), streams, data, 0)
    ELSE Outcome(dumps(data), streams, data, 0)

\* ---------------------------------------------------------------- payloads

\* The shapes of up to dims dimensions, each extent in 0..MaxExtent.
RECURSIVE Shapes(_)
Shapes(dims) ==
    IF dims = 0 THEN {<<>>}
    ELSE Shapes(dims - 1)
         \cup {<<e>> \o sh : e \in 0..MaxExtent, sh \in {x \in Shapes(dims - 1) : Len(x) = dims - 1}}

\* The array of a shape holding -1, 0, 1, ... in row-major order.
Arange(shape) == NdArray(shape, [i \in 1..Product(shape) |-> i - 2])

Arrays == {Arange(sh) : sh \in Shapes(MaxDim)}

Primitives == {PyNone, PyBool(TRUE), PyInt(-12), PyStr(<<"a", "\"", "\\">>)}

Leaves == Primitives \cup {PyObject, Arange(<<>>), Arange(<<2>>)}

\* The values with at most depth containers around a leaf.
RECURSIVE Nested(_)
Nested(depth) ==
    IF depth = 0 THEN Leaves
    ELSE Nested(depth - 1)
         \cup {PyList(<<x>>) : x \in Nested(depth - 1)}
         \cup {PyDict(<<<<"k">>>>, <<x>>) : x \in Nested(depth - 1)}

\* Containers of two items.
Pairs ==
    {PyList(<<x, y>>) : x \in Leaves, y \in {PyInt(0), Arange(<<1, 2>>)}}
    \cup {PyDict(<<<<"a">>, <<"b", "\"">>>>, <<x, y>>) :
            x \in Leaves, y \in {PyBool(FALSE), Arange(<<2, 1>>)}}
    \cup {PyList(<<>>), PyDict(<<>>, <<>>), PyStr(<<>>)}

StreamIds == {1, 2}

\* A dict holding one array, for each array.
ArrayDicts == {PyDict(<<<<"k">>>>, <<a>>) : a \in Arrays}

\* Objects that expose read(): files, dict subclasses and ndarray subclasses.
Readables ==
    {PyFile(id) : id \in StreamIds}
    \cup {WithRead(x, id) : x \in {y \in Nested(1) : IsDict(y)}, id \in StreamIds}
    \cup {WithRead(x, id) : x \in {Arange(<<>>), Arange(<<2>>), Arange(<<2, 2>>)},
                            id \in StreamIds}

Payloads == Nested(MaxDepth) \cup Pairs \cup Arrays \cup ArrayDicts \cup Readables

\* What the two streams hold: a JSON text and a text that is no JSON.
Contents ==
    [i \in StreamIds |->
       IF i = 1 THEN <<"{", "\"", "a", "\"", ":", " ", "1", "}">> ELSE <<"a", "b">>]

\* ---------------------------------------------------------------- state

VARIABLES
    instances,  \* the classes that have been instantiated
    streams,    \* stream id -> [buf, pos]: the caller's open streams
    op,         \* the last operation: "none", "new" or "serialize"
    class,      \* the class the last operation was on
    arg,        \* the payload passed to the last serialize, as it was passed
    data,       \* the same payload object after the call
    pre,        \* the streams before the last operation
    result,     \* the outcome of the last operation: a return or a raise
    reads,      \* how many read() calls the last operation made
    drained     \* the streams that operations before the last one have read

vars == <<instances, streams, op, class, arg, data, pre, result, reads, drained>>

\* The streams the last operation read.
JustRead == IF reads > 0 THEN {arg.rd} ELSE {}

\* No instance yet; the streams are open, the first at its start or one
\* character in, the second at its start.
Init ==
    /\ instances = {}
    /\ streams \in {[i \in StreamIds |->
                       [buf |-> Contents[i], pos |-> IF i = 1 THEN p ELSE 0]] : p \in {0, 1}}
    /\ op = "none"
    /\ class = BaseSerializer
    /\ arg = PyNone
    /\ data = PyNone
    /\ pre = streams
    /\ result = Return(<<>>)
    /\ reads = 0
    /\ drained = {}

\* c(): an abstract class raises TypeError and gives no instance.
New(c) ==
    /\ op' = "new"
    /\ class' = c
    /\ IF abstractmethods(c) # {}
       THEN result' = Raise("TypeError") /\ instances' = instances
       ELSE result' = Return(<<>>) /\ instances' = instances \cup {c}
    /\ arg' = PyNone
    /\ data' = PyNone
    /\ pre' = streams
    /\ reads' = 0
    /\ drained' = drained \cup JustRead
    /\ UNCHANGED streams

\* JSONSerializer().serialize(d) on an instance that exists.
Serialize(d) ==
    /\ JSONSerializer \in instances
    /\ LET out == serialize(d, streams)
       IN  /\ result' = out.result
           /\ streams' = out.streams
           /\ data' = out.data
           /\ reads' = out.reads
    /\ op' = "serialize"
    /\ class' = JSONSerializer
    /\ arg' = d
    /\ pre' = streams
    /\ drained' = drained \cup JustRead
    /\ UNCHANGED instances

Instantiate == \E c \in Classes : New(c)
Call == \E d \in Payloads : Serialize(d)

Next == Instantiate \/ Call

Spec == Init /\ [][Next]_vars

\* ---------------------------------------------------------------- properties

Called == op = "serialize"
Returned == result.exc = ""
Raised == result.exc = "TypeError" /\ result.text = <<>>

\* The payload takes the stream branch: it exposes read() and is no dict.
StreamBranch(x) == ~IsDict(x) /\ HasRead(x)

\* The decoded result of the last call.
Decoded == loads(result.text)

\* val is the nested list of the array of this shape and buffer: one list level
\* per dimension, of the dimension's extent, and the element at index
\* (i1, ..., in) is the buffer's element at the row-major offset from base.
RECURSIVE RowMajor(_, _, _, _)
RowMajor(val, shape, buf, base) ==
    IF shape = <<>> THEN val.t = "int" /\ val.n = buf[base + 1]
    ELSE /\ val.t = "list"
         /\ Len(val.v) = Head(shape)
         /\ \A i \in 1..Head(shape) :
              RowMajor(val.v[i], Tail(shape), buf, base + (i - 1) * Product(Tail(shape)))

IsPrimitive(x) == x.t \in {"NoneType", "bool", "int", "str"}

\* x is or holds, at some depth of lists and dicts, a value of type t.
RECURSIVE Holds(_, _)
Holds(x, t) ==
    \/ x.t = t
    \/ x.t \in {"list", "dict"} /\ \E i \in 1..Len(x.v) : Holds(x.v[i], t)

\* Every value at every depth of x has a JSON encoding or is an ndarray.
RECURSIVE ArraysAside(_)
ArraysAside(x) ==
    \/ IsPrimitive(x)
    \/ IsNdArray(x)
    \/ x.t \in {"list", "dict"} /\ \A i \in 1..Len(x.v) : ArraysAside(x.v[i])

\* C1: the dispatch order is dict, read, ndarray, anything else, and the first
\* match wins: a dict that has a read() is encoded as a JSON object and its
\* read() is never called (no stream moves); an ndarray that has a read() is
\* read, and what is returned is the stream's content, not the array's JSON.
C1_FirstMatchWins ==
    Called =>
        /\ IsDict(arg) /\ HasRead(arg) =>
             /\ reads = 0
             /\ streams = pre
             /\ result = dumps(comprehension(arg))
             /\ Returned => Decoded.ok /\ IsDict(Decoded.val)
        /\ IsNdArray(arg) /\ HasRead(arg) =>
             /\ reads = 1
             /\ result = Return(Remaining(pre[arg.rd]))
             /\ result # dumps(tolist(arg.shape, arg.buf))
        /\ IsNdArray(arg) /\ ~HasRead(arg) => result = dumps(tolist(arg.shape, arg.buf))
        /\ ~IsDict(arg) /\ ~HasRead(arg) /\ ~IsNdArray(arg) => result = dumps(arg)

C1_Witness ==
    /\ Called /\ IsDict(arg) /\ HasRead(arg) /\ Returned
    /\ pre[arg.rd].pos < Len(pre[arg.rd].buf)
    /\ \E i \in 1..Len(arg.v) : IsNdArray(arg.v[i])

\* C2: for a payload with a read() that is no dict, serialize returns exactly
\* the stream's content from its read position to its end, as it is, and leaves
\* the stream at its end; so a later serialize of the same stream returns the
\* empty content.
C2_StreamReadToEnd ==
    Called /\ StreamBranch(arg) =>
        /\ result = Return(Drop(pre[arg.rd].buf, pre[arg.rd].pos))
        /\ streams[arg.rd].pos = Len(streams[arg.rd].buf)
        /\ streams[arg.rd].buf = pre[arg.rd].buf
        /\ arg.rd \in drained => result = Return(<<>>)

C2_Witness ==
    /\ Called /\ StreamBranch(arg) /\ arg.rd \in drained
    /\ result = Return(<<>>)
    /\ streams[arg.rd].buf # <<>>

\* C3: for a dict whose values are each a JSON primitive or an ndarray, the
\* result decodes to a dict with the same keys, where the value of a key is the
\* ndarray's tolist() or else the original value.
C3_DictRoundTrip ==
    Called /\ IsDict(arg) /\ (\A i \in 1..Len(arg.v) : IsPrimitive(arg.v[i]) \/ IsNdArray(arg.v[i]))
    =>  /\ Returned
        /\ Decoded.ok
        /\ IsDict(Decoded.val)
        /\ {Decoded.val.k[j] : j \in 1..Len(Decoded.val.k)} = {arg.k[i] : i \in 1..Len(arg.k)}
        /\ \A i \in 1..Len(arg.k) :
             \E j \in 1..Len(Decoded.val.k) :
                /\ Decoded.val.k[j] = arg.k[i]
                /\ IF IsNdArray(arg.v[i])
                   THEN /\ Same(Decoded.val.v[j], tolist(arg.v[i].shape, arg.v[i].buf))
                        /\ RowMajor(Decoded.val.v[j], arg.v[i].shape, arg.v[i].buf, 0)
                   ELSE Same(Decoded.val.v[j], arg.v[i])

C3_Witness ==
    /\ Called /\ IsDict(arg) /\ Len(arg.k) = 2 /\ Returned
    /\ IsPrimitive(arg.v[1]) /\ IsNdArray(arg.v[2])
    /\ Decoded.ok /\ Decoded.val.v[2].t = "list"

\* An ndarray payload's result decodes to the array's nested list, with the
\* array's shape and its elements in row-major order.
ArrayRoundTrip ==
    /\ Returned
    /\ Decoded.ok
    /\ Same(Decoded.val, tolist(arg.shape, arg.buf))
    /\ RowMajor(Decoded.val, arg.shape, arg.buf, 0)

\* C4, as stated: the round trip of every ndarray payload.
C4_AnyArrayRoundTrip == Called /\ IsNdArray(arg) => ArrayRoundTrip

\* C4, amended: the round trip of every ndarray payload that has no read().
C4_ArrayRoundTrip == Called /\ IsNdArray(arg) /\ ~HasRead(arg) => ArrayRoundTrip

C4_Witness ==
    /\ Called /\ IsNdArray(arg) /\ ~HasRead(arg) /\ Returned
    /\ Len(arg.shape) = 2 /\ Len(arg.buf) >= 4

\* C5, as stated: a dict payload whose values hold, at any depth, nothing
\* without a JSON encoding but ndarrays is returned as JSON text; a list payload
\* holding an ndarray fails.
C5_DeepConversion ==
    Called =>
        /\ IsDict(arg) /\ ArraysAside(arg) => Returned /\ Decoded.ok
        /\ arg.t = "list" /\ Holds(arg, "ndarray") => Raised

\* C5, amended: an ndarray that is itself a value of the dict payload is
\* converted and the call returns JSON text; an ndarray deeper inside a list or
\* dict that is a value is not converted and the call fails with TypeError; a
\* list payload holding an ndarray fails with TypeError.
C5_DirectConversionOnly ==
    Called =>
        /\ IsDict(arg) /\ (\A i \in 1..Len(arg.v) : IsNdArray(arg.v[i]) \/ Encodable(arg.v[i]))
           => /\ Returned
              /\ Decoded.ok
              /\ \A i \in 1..Len(arg.v) : IsNdArray(arg.v[i]) =>
                   \E j \in 1..Len(Decoded.val.k) :
                      /\ Decoded.val.k[j] = arg.k[i]
                      /\ RowMajor(Decoded.val.v[j], arg.v[i].shape, arg.v[i].buf, 0)
        /\ IsDict(arg) /\ (\E i \in 1..Len(arg.v) : ~IsNdArray(arg.v[i]) /\ Holds(arg.v[i], "ndarray"))
           => Raised
        /\ arg.t = "list" /\ Holds(arg, "ndarray") => Raised

C5_Witness ==
    /\ Called /\ IsDict(arg) /\ ArraysAside(arg) /\ Raised
    /\ \E i \in 1..Len(arg.v) : arg.v[i].t = "list" /\ Holds(arg.v[i], "ndarray")

\* C6: a payload that is a custom instance, or a dict or list holding one at
\* any depth, ends in TypeError and no text is returned.
C6_UnencodableRaises ==
    Called /\ ~StreamBranch(arg) /\ ~IsNdArray(arg) /\ Holds(arg, "object") => Raised

C6_Witness ==
    /\ Called /\ IsDict(arg) /\ Raised
    /\ \E i \in 1..Len(arg.v) : arg.v[i].t = "list" /\ Holds(arg.v[i], "object")

\* C7: the CONTENT_TYPE of every JSONSerializer instance is "application/json",
\* before any call and after every call, failed ones included.
C7_ContentType ==
    /\ \A c \in instances : c.name = "JSONSerializer" => c.CONTENT_TYPE = "application/json"
    /\ Called => class.CONTENT_TYPE = "application/json"

C7_Witness == Called /\ Raised /\ JSONSerializer \in instances

\* C8: a class that leaves CONTENT_TYPE or serialize abstract, BaseSerializer
\* included, is refused at instantiation and never has an instance, so serialize
\* only ever runs on a class that defines both; a class defining both is
\* instantiated.
C8_AbstractRefused ==
    /\ \A c \in instances : Members \subseteq c.defines
    /\ BaseSerializer \notin instances
    /\ op = "new" =>
         IF Members \subseteq class.defines
         THEN Returned /\ class \in instances
         ELSE Raised /\ class \notin instances
    /\ Called => class \in instances /\ Members \subseteq class.defines

C8_Witness ==
    /\ op = "new" /\ class.name = "Variant" /\ class.defines = {"serialize"} /\ Raised
    /\ JSONSerializer \in instances

\* C9: whatever serialize returns is a JSON text.
C9_ReturnsJSON == Called /\ Returned => Decoded.ok

\* The streams of a fresh caller: what a first call would see.
Unread == [i \in StreamIds |-> [buf |-> Contents[i], pos |-> 0]]

\* C10: a call moves no stream but the one the stream branch reads, leaves the
\* payload object as it was passed and the serializer's instance in place; the
\* result for a payload outside the stream branch is what a first call gives.
C10_OnlyStreamMoves ==
    Called =>
        /\ data = arg
        /\ JSONSerializer \in instances
        /\ \A i \in StreamIds : (StreamBranch(arg) /\ i = arg.rd) \/ streams[i] = pre[i]
        /\ ~StreamBranch(arg) => reads = 0 /\ result = serialize(arg, Unread).result

C10_Witness ==
    /\ Called /\ IsDict(arg) /\ Returned /\ drained # {}
    /\ \E i \in 1..Len(data.v) : IsNdArray(data.v[i])

====
